---- MODULE Spec2Model ----
(***************************************************************************)
(* flex-dto: the populate step (FlexDto.init) of a data object, its field  *)
(* resolver, its value pipeline and its case converter.                    *)
(*                                                                         *)
(* A string is a sequence of one-character strings.  A JavaScript object   *)
(* (the instance, a payload, an alias table, a transform table) is a       *)
(* sequence of [k, v] entries in property-creation order.                  *)
(***************************************************************************)
EXTENDS Integers, Sequences, FiniteSets, TLC

VARIABLES legacyFields, inst, opts, autoStrict, call, diags, threw,
          ctor, aliasMetadata, transformMetadata, heap, plainOut, word, converted

vars == <<legacyFields, inst, opts, autoStrict, call, diags, threw,
          ctor, aliasMetadata, transformMetadata, heap, plainOut, word, converted>>

\* what a populate call on the instance leaves alone: the class of the
\* instance (ctor), the two decorator registries, the other instances of the
\* program (heap), the value the latest toPlain call returned (plainOut), and the
\* argument and the results of the latest case conversion (word, converted)
rest == <<ctor, aliasMetadata, transformMetadata, heap, plainOut, word, converted>>

(***************************************************************************)
(* Bounds                                                                  *)
(***************************************************************************)
\* the largest number of keys of one payload
MaxKeys == 2

\* the largest number of init calls on one instance, where init is re-run
MaxCalls == 2

\* the largest number of keys of one payload, where init is re-run
SeqMaxKeys == 1

(***************************************************************************)
(* Characters                                                              *)
(***************************************************************************)
LowerChars ==
  {"a","b","c","d","e","f","g","h","i","j","k","l","m",
   "n","o","p","q","r","s","t","u","v","w","x","y","z"}

UpperChars ==
  {"A","B","C","D","E","F","G","H","I","J","K","L","M",
   "N","O","P","Q","R","S","T","U","V","W","X","Y","Z"}

\* char.toUpperCase() of a letter of [a-z]
ToUpperChar(c) ==
  CASE c = "a" -> "A" [] c = "b" -> "B" [] c = "c" -> "C" [] c = "d" -> "D"
    [] c = "e" -> "E" [] c = "f" -> "F" [] c = "g" -> "G" [] c = "h" -> "H"
    [] c = "i" -> "I" [] c = "j" -> "J" [] c = "k" -> "K" [] c = "l" -> "L"
    [] c = "m" -> "M" [] c = "n" -> "N" [] c = "o" -> "O" [] c = "p" -> "P"
    [] c = "q" -> "Q" [] c = "r" -> "R" [] c = "s" -> "S" [] c = "t" -> "T"
    [] c = "u" -> "U" [] c = "v" -> "V" [] c = "w" -> "W" [] c = "x" -> "X"
    [] c = "y" -> "Y" [] c = "z" -> "Z" [] OTHER -> c

\* char.toLowerCase()
ToLowerChar(c) ==
  CASE c = "A" -> "a" [] c = "B" -> "b" [] c = "C" -> "c" [] c = "D" -> "d"
    [] c = "E" -> "e" [] c = "F" -> "f" [] c = "G" -> "g" [] c = "H" -> "h"
    [] c = "I" -> "i" [] c = "J" -> "j" [] c = "K" -> "k" [] c = "L" -> "l"
    [] c = "M" -> "m" [] c = "N" -> "n" [] c = "O" -> "o" [] c = "P" -> "p"
    [] c = "Q" -> "q" [] c = "R" -> "r" [] c = "S" -> "s" [] c = "T" -> "t"
    [] c = "U" -> "u" [] c = "V" -> "v" [] c = "W" -> "w" [] c = "X" -> "x"
    [] c = "Y" -> "y" [] c = "Z" -> "z" [] OTHER -> c

\* char === char.toUpperCase() && char !== char.toLowerCase()
IsUpper(c) == c \in UpperChars

\* c === c.toLowerCase() && c !== c.toUpperCase()
IsLower(c) == c \in LowerChars

\* str.startsWith("_")
StartsWithUnderscore(str) == Len(str) > 0 /\ str[1] = "_"

\* str.includes("_")
IncludesUnderscore(str) == \E i \in 1..Len(str) : str[i] = "_"

(***************************************************************************)
(* Case converter                                                          *)
(***************************************************************************)
RECURSIVE SnakeFrom(_, _)
\* SnakeFrom separating every upper-case letter, inside a run as well
SnakeFrom_SplitsEveryUpper(str, i) ==
  IF i > Len(str) THEN <<>>
  ELSE
    LET char == str[i]
        sep == IF i > 1 THEN <<"_">> ELSE <<>>
    IN  IF IsUpper(char)
        THEN sep \o <<ToLowerChar(char)>> \o SnakeFrom(str, i + 1)
        ELSE <<char>> \o SnakeFrom(str, i + 1)

\* the loop of toSnakeCase from index i on
SnakeFrom(str, i) ==
  IF i > Len(str) THEN <<>>
  ELSE
    LET char == str[i]
        prevIsUpper == i > 1 /\ IsUpper(str[i - 1])
        nextIsLower == i < Len(str) /\ IsLower(str[i + 1])
        sep == IF i > 1 /\ (~prevIsUpper \/ (prevIsUpper /\ nextIsLower))
               THEN <<"_">> ELSE <<>>
    IN  IF IsUpper(char)
        THEN sep \o <<ToLowerChar(char)>> \o SnakeFrom(str, i + 1)
        ELSE <<char>> \o SnakeFrom(str, i + 1)

toSnakeCase(str) == SnakeFrom(str, 1)

RECURSIVE CamelFrom(_, _)
\* CamelFrom replacing the first match only, as the pattern without its g flag
CamelFrom_FirstMatchOnly(str, i) ==
  IF i > Len(str) THEN <<>>
  ELSE IF str[i] = "_" /\ i < Len(str) /\ IsLower(str[i + 1])
       THEN <<ToUpperChar(str[i + 1])>> \o SubSeq(str, i + 2, Len(str))
       ELSE <<str[i]>> \o CamelFrom(str, i + 1)

\* str.replace(/_([a-z])/g, upper), scanning from index i on
CamelFrom(str, i) ==
  IF i > Len(str) THEN <<>>
  ELSE IF str[i] = "_" /\ i < Len(str) /\ IsLower(str[i + 1])
       THEN <<ToUpperChar(str[i + 1])>> \o CamelFrom(str, i + 2)
       ELSE <<str[i]>> \o CamelFrom(str, i + 1)

toCamelCase(str) == CamelFrom(str, 1)

(***************************************************************************)
(* Values: [kind, val]; typeof is derived from kind                        *)
(*                                                                         *)
(* An array, a FlexDto instance and a plain object are references: val     *)
(* holds ref, the party that allocated the object ("own": the constructor  *)
(* of the instance at hand, in a field initializer or in a transform;      *)
(* "data": the producer of the payload), and the items or properties.      *)
(***************************************************************************)
Undefined  == [kind |-> "undefined", val |-> ""]
Null       == [kind |-> "null", val |-> ""]
StrEmpty   == [kind |-> "string", val |-> ""]
Str30      == [kind |-> "string", val |-> "30"]
StrInvalid == [kind |-> "string", val |-> "invalid"]
Num0       == [kind |-> "number", val |-> "0"]
Num30      == [kind |-> "number", val |-> "30"]
NumNaN     == [kind |-> "number", val |-> "NaN"]
Big1       == [kind |-> "bigint", val |-> "1"]
BoolTrue   == [kind |-> "boolean", val |-> "true"]
BoolFalse  == [kind |-> "boolean", val |-> "false"]
FunctionVal == [kind |-> "function", val |-> "method"]

\* an array of the given items
ArrayOf(ref, items) == [kind |-> "array", val |-> [ref |-> ref, items |-> items]]

\* an instance of a class that extends FlexDto, with the given own properties
InstanceOf(ref, props) == [kind |-> "dto", val |-> [ref |-> ref, props |-> props]]

\* a plain object with the given own properties
PlainOf(ref, props) == [kind |-> "object", val |-> [ref |-> ref, props |-> props]]

\* the array a literal [] allocates
ArrEmpty == ArrayOf("own", <<>>)

\* typeof value
TypeOf(value) ==
  IF value.kind \in {"null", "array", "object", "dto"}
  THEN "object" ELSE value.kind

\* JSON.stringify(value) returns (it raises a TypeError on a BigInt)
Stringifiable(value) == value.kind # "bigint"

(***************************************************************************)
(* Objects as ordered entry lists                                          *)
(***************************************************************************)
\* Object.prototype.hasOwnProperty.call(obj, key)
HasOwn(obj, key) == \E i \in 1..Len(obj) : obj[i].k = key

IndexOfKey(obj, key) == CHOOSE i \in 1..Len(obj) : obj[i].k = key

\* Object.keys(obj)
KeysOf(obj) == [i \in 1..Len(obj) |-> obj[i].k]

\* array.includes(x), set.has(x)
Includes(seq, x) == \E i \in 1..Len(seq) : seq[i] = x

\* obj[key] = value: an existing property keeps its place, a new one is appended
SetProp(obj, key, value) ==
  IF HasOwn(obj, key)
  THEN [obj EXCEPT ![IndexOfKey(obj, key)] = [k |-> key, v |-> value]]
  ELSE Append(obj, [k |-> key, v |-> value])

RECURSIVE Spread(_, _)
\* { ...a, ...b }
Spread(a, b) ==
  IF b = <<>> THEN a ELSE Spread(SetProp(a, Head(b).k, Head(b).v), Tail(b))

(***************************************************************************)
(* Names                                                                   *)
(***************************************************************************)
paymentId   == <<"p","a","y","m","e","n","t","I","d">>
payment_id  == <<"p","a","y","m","e","n","t","_","i","d">>
pay_id      == <<"p","a","y","_","i","d">>
payId       == <<"p","a","y","I","d">>
id          == <<"i","d">>
age         == <<"a","g","e">>
amount      == <<"a","m","o","u","n","t">>
isActive    == <<"i","s","A","c","t","i","v","e">>
is_active   == <<"i","s","_","a","c","t","i","v","e">>
userID      == <<"u","s","e","r","I","D">>
user_id     == <<"u","s","e","r","_","i","d">>
userId      == <<"u","s","e","r","I","d">>
products    == <<"p","r","o","d","u","c","t","s">>
toPlainName == <<"t","o","P","l","a","i","n">>
toJSONName  == <<"t","o","J","S","O","N">>
initName    == <<"i","n","i","t">>

productId   == <<"p","r","o","d","u","c","t","I","d">>
price       == <<"p","r","i","c","e">>
pay__id     == <<"p","a","y","_","_","i","d">>
to_plain    == <<"t","o","_","p","l","a","i","n">>
to_j_s_o_n  == <<"t","o","_","j","_","s","_","o","_","n">>
optsName    == <<"_","o","p","t","s">>
strictModeName == <<"_","s","t","r","i","c","t","M","o","d","e">>

\* the callable members an instance inherits from FlexDto.prototype
Methods == {toPlainName, toJSONName, initName}

(***************************************************************************)
(* The class under test                                                    *)
(*   class Dto extends FlexDto {                                           *)
(*     @Alias("pay_id", "payId") paymentId = "";                           *)
(*     age = 0;                                                            *)
(*     @Transform(Number) amount = 0;                                      *)
(*     isActive: boolean;                                                  *)
(*     userID = "";                                                        *)
(*     products: Product[] = [];                                           *)
(*   }                                                                     *)
(***************************************************************************)
\* the declared fields, in declaration order
DeclaredFields == <<paymentId, age, amount, isActive, userID, products>>

\* the declared fields that have an initializer
InitializedFields == {paymentId, age, amount, userID, products}

DefaultOf(f) ==
  CASE f = paymentId -> StrEmpty
    [] f = age       -> Num0
    [] f = amount    -> Num0
    [] f = userID    -> StrEmpty
    [] f = products  -> ArrEmpty
    [] OTHER         -> Undefined

\* The own properties after the field initializers ran.  A field declared
\* without an initializer is an own property holding undefined when the class
\* is emitted with define semantics, and is no property at all when it is
\* emitted with the legacy (assignment) semantics.
NewInstance(legacy) ==
  LET declared == [i \in 1..Len(DeclaredFields) |->
                     [k |-> DeclaredFields[i], v |-> DefaultOf(DeclaredFields[i])]]
  IN  SelectSeq(declared, LAMBDA e : ~legacy \/ e.k \in InitializedFields)

\* this[key]
Get(obj, key) ==
  IF HasOwn(obj, key) THEN obj[IndexOfKey(obj, key)].v
  ELSE IF key \in Methods THEN FunctionVal
  ELSE Undefined

\* aliasMetadata for the class prototype, as @Alias registered it
StaticAliases == << [k |-> paymentId, v |-> <<pay_id, payId>>] >>

\* transformMetadata for the class prototype, as @Transform registered it
StaticTransforms == << [k |-> amount, v |-> "Number"] >>

getAliases == StaticAliases

getTransforms == StaticTransforms

(***************************************************************************)
(* Transform functions                                                     *)
(***************************************************************************)
RECURSIVE NumberOf(_)
\* Number(value); an array converts as the string its items join to
NumberOf(value) ==
  CASE value.kind = "number" -> value
    [] value.kind = "string" ->
         IF value.val = "" THEN Num0
         ELSE IF value.val \in {"0", "1", "30"}
              THEN [kind |-> "number", val |-> value.val]
              ELSE NumNaN
    [] value.kind = "bigint" -> [kind |-> "number", val |-> value.val]
    [] value.kind = "boolean" ->
         [kind |-> "number", val |-> IF value = BoolTrue THEN "1" ELSE "0"]
    [] value.kind = "null" -> Num0
    [] value.kind = "array" ->
         LET items == value.val.items
         IN  IF items = <<>> THEN Num0
             ELSE IF Len(items) > 1 THEN NumNaN
             ELSE IF items[1].kind \in {"null", "undefined"} THEN Num0
             ELSE IF items[1].kind \in {"number", "string", "bigint", "array"}
                  THEN NumberOf(items[1])
             ELSE NumNaN
    [] OTHER -> NumNaN

\* The nested class of the tests, cut to three fields:
\*   class Product extends FlexDto {
\*     productId = ""; price = 0; products: Product[] = [];
\*     constructor(data) { super(); this.init(data, { transforms: { price: Number } }); }
\*   }
\* A nested instance is written with the properties of its subclass only: its
\* _opts and _strictMode are read by nothing outside its own init.
ProductFields == <<productId, price, products>>

ProductDefault(f) ==
  CASE f = productId -> StrEmpty
    [] f = price     -> Num0
    [] OTHER         -> ArrEmpty

\* new Product(item), for an item that spells the fields it carries verbatim
NewProduct(item) ==
  LET carried(f) == /\ item.kind \in {"object", "dto"}
                    /\ HasOwn(item.val.props, f)
                    /\ Get(item.val.props, f) # Undefined
      given(f) == Get(item.val.props, f)
  IN  InstanceOf("own",
        [i \in 1..Len(ProductFields) |->
           LET f == ProductFields[i]
           IN  [k |-> f,
                v |-> IF ~carried(f) THEN ProductDefault(f)
                      ELSE IF f = price THEN NumberOf(given(f))
                      ELSE given(f)]])

\* The outcome of transform(value): it returns val, or raises an Error whose
\* message is msg.
\*   "Number"        Number
\*   "GuardedNumber" (v) => { if (v === "invalid") throw new Error("Invalid");
\*                            return Number(v); }
\*   "ArrayMap"      (v) => Array.isArray(v) ? v.map((x) => new Product(x)) : []
ApplyTransform(transform, value) ==
  CASE transform = "Number" ->
         [ok |-> TRUE, val |-> NumberOf(value), msg |-> ""]
    [] transform = "GuardedNumber" ->
         IF value = StrInvalid
         THEN [ok |-> FALSE, val |-> Undefined, msg |-> "Invalid"]
         ELSE [ok |-> TRUE, val |-> NumberOf(value), msg |-> ""]
    [] transform = "ArrayMap" ->
         IF value.kind = "array"
         THEN [ok |-> TRUE,
               val |-> ArrayOf("own",
                         [i \in 1..Len(value.val.items) |->
                            NewProduct(value.val.items[i])]),
               msg |-> ""]
         ELSE [ok |-> TRUE, val |-> ArrEmpty, msg |-> ""]

\* table[key] of an alias or transform table; "none" for undefined
TableGet(table, key) ==
  IF HasOwn(table, key) THEN table[IndexOfKey(table, key)].v ELSE "none"

(***************************************************************************)
(* FlexDto                                                                 *)
(***************************************************************************)
\* isDevelopmentMode(): the ambient flag, NODE_ENV === "development" or
\* __FLEX_DTO_STRICT__ === true
isDevelopmentMode(ambient) == ambient

\* this._opts.strictMode ?? this._strictMode
EffectiveStrict(o, auto) ==
  IF o.strictMode = "undefined" THEN auto ELSE o.strictMode = "true"

\* validateType(key, value, expectedType): the diagnostics it appends, and
\* whether it raised
validateType(st, key, value, expectedType, ctx) ==
  IF ~ctx.strict THEN st
  ELSE
    LET actualType == TypeOf(value)
        isCompatible ==
          \/ actualType = expectedType
          \/ /\ expectedType = "object"
             /\ (actualType = "object" \/ actualType = "undefined" \/ value = Null)
    IN  IF isCompatible \/ ~isDevelopmentMode(ctx.dev) THEN st
        ELSE IF ~Stringifiable(value) THEN [st EXCEPT !.threw = TRUE]
        ELSE [st EXCEPT !.diags = Append(@,
                [type |-> "TypeMismatch", field |-> key,
                 expected |-> expectedType, actual |-> actualType])]

\* getClassFields(): the own properties that neither start with an underscore
\* nor hold a function, in Object.keys order (the prototypes of a class whose
\* members are fields and methods add no data property)
getClassFields(obj) ==
  KeysOf(SelectSeq(obj,
    LAMBDA e : ~StartsWithUnderscore(e.k) /\ TypeOf(e.v) # "function"))

\* fieldAliases.includes(dataKey) || fieldAliases.includes(camelKey)
AliasHit(fieldAliases, dataKey, camelKey) ==
  Includes(fieldAliases, dataKey) \/ Includes(fieldAliases, camelKey)

\* the empty string stands for null: both are falsy, and every use tests truthiness
NoField == <<>>

\* findMatchingField accepting the camelCase form of a key without probing
\* the instance for a method of that name
findMatchingField_MethodNotProbed(obj, dataKey, classFields, aliases) ==
  LET camelKey == toCamelCase(dataKey)
      fwd == { i \in 1..Len(aliases) :
                 /\ Includes(classFields, aliases[i].k)
                 /\ AliasHit(aliases[i].v, dataKey, camelKey) }
      rev == { i \in 1..Len(classFields) :
                 /\ HasOwn(aliases, classFields[i])
                 /\ AliasHit(TableGet(aliases, classFields[i]), dataKey, camelKey) }
      Min(S) == CHOOSE i \in S : \A j \in S : i <= j
  IN  IF Includes(classFields, dataKey) THEN dataKey
      ELSE IF Includes(classFields, camelKey) THEN camelKey
      ELSE IF fwd # {} THEN aliases[Min(fwd)].k
      ELSE IF rev # {} THEN classFields[Min(rev)]
      ELSE IF /\ camelKey # <<>>
              /\ camelKey # dataKey
              /\ ~StartsWithUnderscore(camelKey)
           THEN camelKey
      ELSE NoField

\* findMatchingField(dataKey, classFields, aliases)
findMatchingField(obj, dataKey, classFields, aliases) ==
  LET camelKey == toCamelCase(dataKey)
      fwd == { i \in 1..Len(aliases) :
                 /\ Includes(classFields, aliases[i].k)
                 /\ AliasHit(aliases[i].v, dataKey, camelKey) }
      rev == { i \in 1..Len(classFields) :
                 /\ HasOwn(aliases, classFields[i])
                 /\ AliasHit(TableGet(aliases, classFields[i]), dataKey, camelKey) }
      Min(S) == CHOOSE i \in S : \A j \in S : i <= j
  IN  IF Includes(classFields, dataKey) THEN dataKey
      ELSE IF Includes(classFields, camelKey) THEN camelKey
      ELSE IF fwd # {} THEN aliases[Min(fwd)].k
      ELSE IF rev # {} THEN classFields[Min(rev)]
      ELSE IF /\ camelKey # <<>>
              /\ camelKey # dataKey
              /\ ~StartsWithUnderscore(camelKey)
              /\ TypeOf(Get(obj, camelKey)) # "function"
           THEN camelKey
      ELSE NoField

\* SkipsEntry without the `dataKey.startsWith("_")` test
SkipsEntry_UnderscoreRead(dataKey, value) ==
  value = Undefined

\* SkipsEntry without the `value === undefined` test
SkipsEntry_UndefinedAssigned(dataKey, value) ==
  StartsWithUnderscore(dataKey)

\* if (dataKey.startsWith("_")) continue; ... if (value === undefined) continue;
SkipsEntry(dataKey, value) ==
  StartsWithUnderscore(dataKey) \/ value = Undefined

\* targetKey after the fallback of init for a key findMatchingField left unmatched
ResolveTarget(obj, dataKey, classFields, aliases) ==
  LET camelKey == toCamelCase(dataKey)
      found == findMatchingField(obj, dataKey, classFields, aliases)
  IN  IF /\ found = NoField
         /\ camelKey # <<>>
         /\ camelKey # dataKey
         /\ ~StartsWithUnderscore(camelKey)
         /\ TypeOf(Get(obj, camelKey)) # "function"
      THEN camelKey ELSE found

\* shouldAssign without its test on the spelling of the key
ShouldAssign_AnySpelling(targetKey, camelKey, dataKey) ==
  /\ targetKey # NoField
  /\ ~StartsWithUnderscore(targetKey)

\* shouldAssign
ShouldAssign(targetKey, camelKey, dataKey) ==
  /\ targetKey # NoField
  /\ ~StartsWithUnderscore(targetKey)
  /\ (targetKey = camelKey \/ ~IncludesUnderscore(dataKey))

\* expectedType; "none" for undefined
ExpectedType(currentValue) ==
  IF currentValue # Undefined THEN TypeOf(currentValue) ELSE "none"

\* ValuePipeline assigning the raw value where the transform returned
ValuePipeline_ResultDropped(st, targetKey, value, expectedType, transform, ctx) ==
  LET applied == ApplyTransform(transform, value)
  IN  IF transform # "none"
      THEN IF applied.ok \/ ~(ctx.strict /\ isDevelopmentMode(ctx.dev))
           THEN [st |-> st, final |-> value]
           ELSE [st |-> [st EXCEPT !.diags = Append(@,
                          [type |-> "TransformFailed", field |-> targetKey,
                           expected |-> applied.msg, actual |-> ""])],
                 final |-> value]
      ELSE IF expectedType # "none" /\ ctx.strict
      THEN [st |-> validateType(st, targetKey, value, expectedType, ctx),
            final |-> value]
      ELSE [st |-> st, final |-> value]

\* ValuePipeline validating the raw value of a transformed field too
ValuePipeline_TransformValidated(st, targetKey, value, expectedType, transform, ctx) ==
  LET applied == ApplyTransform(transform, value)
      checked == IF expectedType # "none" /\ ctx.strict
                 THEN validateType(st, targetKey, value, expectedType, ctx)
                 ELSE st
  IN  IF transform # "none"
      THEN IF applied.ok
           THEN [st |-> checked, final |-> applied.val]
           ELSE [st |-> checked, final |-> value]
      ELSE [st |-> checked, final |-> value]

\* ValuePipeline leaving the field as it was where the transform raised
ValuePipeline_FailureKeepsCurrent(st, targetKey, value, expectedType, transform, ctx) ==
  LET applied == ApplyTransform(transform, value)
  IN  IF transform # "none"
      THEN IF applied.ok
           THEN [st |-> st, final |-> applied.val]
           ELSE [st |-> st, final |-> Get(st.obj, targetKey)]
      ELSE IF expectedType # "none" /\ ctx.strict
      THEN [st |-> validateType(st, targetKey, value, expectedType, ctx),
            final |-> value]
      ELSE [st |-> st, final |-> value]

\* The value pipeline of init for a key that is assigned: transform, or
\* validate, or neither.  It yields st with the warnings and the exception of
\* this key, and final, the value to assign.
ValuePipeline(st, targetKey, value, expectedType, transform, ctx) ==
  LET applied == ApplyTransform(transform, value)
  IN  IF transform # "none"
      THEN IF applied.ok
           THEN [st |-> st, final |-> applied.val]
           ELSE IF ctx.strict /\ isDevelopmentMode(ctx.dev)
                THEN [st |-> [st EXCEPT !.diags = Append(@,
                               [type |-> "TransformFailed", field |-> targetKey,
                                expected |-> applied.msg, actual |-> ""])],
                      final |-> value]
                ELSE [st |-> st, final |-> value]
      ELSE IF expectedType # "none" /\ ctx.strict
      THEN [st |-> validateType(st, targetKey, value, expectedType, ctx),
            final |-> value]
      ELSE [st |-> st, final |-> value]

\* One iteration of the for-in loop of init, for the payload entry e.
\* st is [obj, diags, threw, steps]: the instance, the warnings written so
\* far, whether an exception left the call, and one record per entry handled
\* (what the iteration saw and did).
ProcessEntry(st, e, ctx) ==
  LET dataKey == e.k
      value == e.v
      camelKey == toCamelCase(dataKey)
      targetKey == ResolveTarget(st.obj, dataKey, ctx.classFields, ctx.aliases)
      currentValue == Get(st.obj, targetKey)
      transform == TableGet(ctx.transforms, targetKey)
      piped == ValuePipeline(st, targetKey, value, ExpectedType(currentValue),
                             transform, ctx)
      warned == IF Len(piped.st.diags) > Len(st.diags)
                THEN piped.st.diags[Len(piped.st.diags)].type ELSE "none"
      step(outcome, final, warning) ==
        [key |-> dataKey, target |-> targetKey, raw |-> value,
         cur |-> currentValue, transform |-> transform,
         final |-> final, outcome |-> outcome, warned |-> warning]
  IN  IF SkipsEntry(dataKey, value)
      THEN [st EXCEPT !.steps = Append(@, step("skipped", Undefined, "none"))]
      ELSE IF ~ShouldAssign(targetKey, camelKey, dataKey)
      THEN [st EXCEPT !.steps = Append(@, step("dropped", Undefined, "none"))]
      ELSE IF piped.st.threw
      THEN [piped.st EXCEPT
              !.steps = Append(@, step("raised", Undefined, "none"))]
      ELSE [piped.st EXCEPT
              !.obj = SetProp(@, targetKey, piped.final),
              !.steps = Append(@, step("assigned", piped.final, warned))]

RECURSIVE InitLoop(_, _, _, _)
\* for (const dataKey in dataObj) ..., from the i-th entry on; an exception
\* ends the loop
InitLoop(st, data, i, ctx) ==
  IF i > Len(data) \/ st.threw THEN st
  ELSE InitLoop(ProcessEntry(st, data[i], ctx), data, i + 1, ctx)

\* const aliases = { ...decoratorAliases, ...this._opts.aliases }
MergedAliases(options) == Spread(getAliases, options.aliases)

\* MergedTransforms with the static entry winning over the per-call one
MergedTransforms_StaticWins(options) == Spread(options.transforms, getTransforms)

\* const transforms = { ...decoratorTransforms, ...this._opts.transforms }
MergedTransforms(options) == Spread(getTransforms, options.transforms)

\* what init(data, options) does to the instance obj, _strictMode being auto
\* and the ambient flag dev
RunInit(obj, data, options, auto, dev) ==
  LET ctx == [aliases     |-> MergedAliases(options),
              transforms  |-> MergedTransforms(options),
              strict      |-> EffectiveStrict(options, auto),
              dev         |-> dev,
              classFields |-> getClassFields(obj)]
  IN  InitLoop([obj |-> obj, diags |-> <<>>, threw |-> FALSE, steps |-> <<>>],
               data, 1, ctx)

\* The own properties of a FlexDto instance: _opts and _strictMode, which the
\* base class declares, then the properties of the subclass.
OwnProperties(obj, o, auto) ==
  << [k |-> optsName, v |-> PlainOf("own", <<>>)],
     [k |-> strictModeName, v |-> IF auto THEN BoolTrue ELSE BoolFalse] >> \o obj

RECURSIVE toPlain(_, _)
RECURSIVE PlainFrom(_, _, _, _, _)
\* PlainFrom projecting a nested instance with the default flag
PlainFrom_NestedDefaultFlag(this, classFields, i, useSnakeCase, result) ==
  IF i > Len(classFields) THEN result
  ELSE
    LET key == classFields[i]
        value == Get(this, key)
        outputKey == IF useSnakeCase THEN toSnakeCase(key) ELSE key
        nested(v) == PlainOf("own", toPlain(v.val.props, FALSE))
        out == IF value.kind = "dto" THEN nested(value)
               ELSE IF value.kind = "array"
               THEN ArrayOf("own",
                      [j \in 1..Len(value.val.items) |->
                         IF value.val.items[j].kind = "dto"
                         THEN nested(value.val.items[j])
                         ELSE value.val.items[j]])
               ELSE value
    IN  IF TypeOf(value) = "function" \/ StartsWithUnderscore(key)
        THEN PlainFrom(this, classFields, i + 1, useSnakeCase, result)
        ELSE PlainFrom(this, classFields, i + 1, useSnakeCase,
                       SetProp(result, outputKey, out))

\* the loop of toPlain over classFields, from the i-th field on
PlainFrom(this, classFields, i, useSnakeCase, result) ==
  IF i > Len(classFields) THEN result
  ELSE
    LET key == classFields[i]
        value == Get(this, key)
        outputKey == IF useSnakeCase THEN toSnakeCase(key) ELSE key
        nested(v) == PlainOf("own", toPlain(v.val.props, useSnakeCase))
        out == IF value.kind = "dto" THEN nested(value)
               ELSE IF value.kind = "array"
               THEN ArrayOf("own",
                      [j \in 1..Len(value.val.items) |->
                         IF value.val.items[j].kind = "dto"
                         THEN nested(value.val.items[j])
                         ELSE value.val.items[j]])
               ELSE value
    IN  IF TypeOf(value) = "function" \/ StartsWithUnderscore(key)
        THEN PlainFrom(this, classFields, i + 1, useSnakeCase, result)
        ELSE PlainFrom(this, classFields, i + 1, useSnakeCase,
                       SetProp(result, outputKey, out))

\* toPlain(useSnakeCase) of the instance whose own properties are this: the
\* properties of the object it returns
toPlain(this, useSnakeCase) ==
  PlainFrom(this, getClassFields(this), 1, useSnakeCase, <<>>)

\* toJSON projecting with snake_case keys
toJSON_SnakeKeys(this) == toPlain(this, TRUE)

\* toJSON()
toJSON(this) == toPlain(this, FALSE)

(***************************************************************************)
(* Inputs                                                                  *)
(***************************************************************************)
\* the keys a payload is built from
Keys == {paymentId, payment_id, pay_id, id, age, amount,
         isActive, is_active, user_id, products}

\* the values a payload is built from
PayloadValues == {Undefined, Null, Str30, StrInvalid, Big1}

Entries == [k : Keys, v : PayloadValues]

\* the payloads of at most n keys: no key twice
Payloads(n) ==
  { p \in UNION { [1..m -> Entries] : m \in 0..n } :
      \A i, j \in 1..Len(p) : i # j => p[i].k # p[j].k }

\* aliases: { paymentId: ["pay_id", "payId", "id"] }
CallAliases == << [k |-> paymentId, v |-> <<pay_id, payId, id>>] >>

\* transforms: { age: GuardedNumber, products: ArrayMap }
CallTransforms == << [k |-> age, v |-> "GuardedNumber"],
                     [k |-> products, v |-> "ArrayMap"] >>

\* options || {}
EmptyOptions == [aliases |-> <<>>, transforms |-> <<>>, strictMode |-> "undefined"]

OptionSets == [aliases : {<<>>, CallAliases},
               transforms : {<<>>, CallTransforms},
               strictMode : {"undefined", "true", "false"}]

\* the record of the latest init call on the instance: its arguments, the
\* instance before it (pre), the flags it read, its iterations (steps), and
\* n, the number of init calls the instance has had
NoCall == [kind |-> "none", n |-> 0, data |-> <<>>, options |-> EmptyOptions,
           pre |-> <<>>, dev |-> FALSE, auto |-> FALSE, steps |-> <<>>]

(***************************************************************************)
(* Actions                                                                 *)
(*                                                                         *)
(* isDevelopmentMode() reads the host's ambient flag.  The constructor     *)
(* reads it once (into _strictMode, here autoStrict) and init reads it     *)
(* when it is about to warn; each read is an input of the action, so the   *)
(* flag may differ between construction and populate.                      *)
(***************************************************************************)
\* no toPlain call and no case conversion has returned yet
NoResult == [status |-> "none"]

\* the program has loaded the class Dto, whose decorators filled the two
\* registries under Dto.prototype, and holds no other instance
Loaded ==
  /\ ctor = "Dto"
  /\ aliasMetadata = << [k |-> "Dto", v |-> StaticAliases] >>
  /\ transformMetadata = << [k |-> "Dto", v |-> StaticTransforms] >>
  /\ heap = <<>>
  /\ plainOut = NoResult
  /\ word = <<>>
  /\ converted = NoResult

\* the state after `new Dto()`
Init ==
  /\ Loaded
  /\ legacyFields \in BOOLEAN
  /\ inst = NewInstance(legacyFields)
  /\ opts = EmptyOptions
  /\ \E ambient \in BOOLEAN : autoStrict = isDevelopmentMode(ambient)
  /\ call = NoCall
  /\ diags = <<>>
  /\ threw = FALSE

\* PopulateWith laying the options of the call over the stored ones, as
\* `this._opts = { ...this._opts, ...options }` would
PopulateWith_OptionsKept(data, options, dev) ==
  LET kept == [aliases    |-> Spread(opts.aliases, options.aliases),
               transforms |-> Spread(opts.transforms, options.transforms),
               strictMode |-> IF options.strictMode = "undefined"
                              THEN opts.strictMode ELSE options.strictMode]
      r == RunInit(inst, data, kept, autoStrict, dev)
  IN  /\ inst' = r.obj
      /\ opts' = kept
      /\ diags' = r.diags
      /\ threw' = r.threw
      /\ call' = [kind |-> "init", n |-> call.n + 1, data |-> data,
                  options |-> options, pre |-> inst, dev |-> dev,
                  auto |-> autoStrict, steps |-> r.steps]
      /\ UNCHANGED <<legacyFields, autoStrict>>
      /\ UNCHANGED rest

\* init(data, options) with an object for data, the ambient flag being dev
PopulateWith(data, options, dev) ==
  LET r == RunInit(inst, data, options, autoStrict, dev)
  IN  /\ inst' = r.obj
      /\ opts' = options
      /\ diags' = r.diags
      /\ threw' = r.threw
      /\ call' = [kind |-> "init", n |-> call.n + 1, data |-> data,
                  options |-> options, pre |-> inst, dev |-> dev,
                  auto |-> autoStrict, steps |-> r.steps]
      /\ UNCHANGED <<legacyFields, autoStrict>>
      /\ UNCHANGED rest

\* the populate call a constructor makes on its new instance
Populate ==
  /\ call.n = 0
  /\ \E data \in Payloads(MaxKeys), options \in OptionSets, dev \in BOOLEAN :
       PopulateWith(data, options, dev)

\* init(data, options) with null, undefined or a primitive for data: it returns
\* before it stores the options
NonObjectWith(options, dev) ==
  /\ call' = [NoCall EXCEPT !.kind = "nonobject", !.n = call.n + 1,
                            !.options = options, !.pre = inst,
                            !.dev = dev, !.auto = autoStrict]
  /\ diags' = <<>>
  /\ threw' = FALSE
  /\ UNCHANGED <<legacyFields, inst, opts, autoStrict>>
  /\ UNCHANGED rest

\* the constructor is handed no object
PopulateNonObject ==
  /\ call.n = 0
  /\ \E options \in OptionSets, dev \in BOOLEAN : NonObjectWith(options, dev)

Next == Populate \/ PopulateNonObject

Spec == Init /\ [][Next]_vars

(***************************************************************************)
(* Re-running init on a populated instance                                 *)
(***************************************************************************)
SeqKeys == {paymentId, pay_id, age, is_active}

SeqValues == {Undefined, Null, Str30}

SeqPayloads ==
  { p \in UNION { [1..m -> [k : SeqKeys, v : SeqValues]] : m \in 0..SeqMaxKeys } :
      \A i, j \in 1..Len(p) : i # j => p[i].k # p[j].k }

\* init(data, options) on an instance that may have been populated before
PopulateAgain ==
  /\ call.n < MaxCalls
  /\ \E data \in SeqPayloads, options \in OptionSets, dev \in BOOLEAN :
       PopulateWith(data, options, dev)

\* init with no object for data, on an instance that may have been populated
PopulateNonObjectAgain ==
  /\ call.n < MaxCalls
  /\ \E options \in OptionSets, dev \in BOOLEAN : NonObjectWith(options, dev)

NextSeq == PopulateAgain \/ PopulateNonObjectAgain

SpecSeq == Init /\ [][NextSeq]_vars

(***************************************************************************)
(* Populating with nested instances and arrays                             *)
(***************************************************************************)
\* the largest number of keys of one payload that holds nested values
GraphMaxKeys == 2

\* a Product the payload holds
LeafProduct ==
  InstanceOf("data", << [k |-> productId, v |-> Str30],
                        [k |-> price, v |-> Num30],
                        [k |-> products, v |-> ArrayOf("data", <<>>)] >>)

\* a plain object the payload holds
PlainItem == PlainOf("data", << [k |-> productId, v |-> Str30] >>)

\* an array the payload holds: an instance, a string and a plain object
ItemList == ArrayOf("data", <<LeafProduct, Str30, PlainItem>>)

\* a Product the payload holds, with instances one level further down
BundleProduct ==
  InstanceOf("data", << [k |-> productId, v |-> StrEmpty],
                        [k |-> price, v |-> Num0],
                        [k |-> products, v |-> ItemList] >>)

GraphKeys == {products, paymentId, age}

GraphValues == {Str30, ItemList, BundleProduct}

GraphOptionSets == [aliases : {<<>>},
                    transforms : {<<>>, CallTransforms},
                    strictMode : {"undefined", "true"}]

GraphPayloads ==
  { p \in UNION { [1..m -> [k : GraphKeys, v : GraphValues]] : m \in 0..GraphMaxKeys } :
      \A i, j \in 1..Len(p) : i # j => p[i].k # p[j].k }

\* the populate call a constructor makes, handed nested instances and arrays
PopulateGraph ==
  /\ call.n = 0
  /\ \E data \in GraphPayloads, options \in GraphOptionSets, dev \in BOOLEAN :
       PopulateWith(data, options, dev)

NextGraph == PopulateGraph \/ PopulateNonObject

SpecGraph == Init /\ [][NextGraph]_vars

(***************************************************************************)
(* Populating with options that override the static declarations           *)
(***************************************************************************)
\* the largest number of keys of one payload, where options override
MergeMaxKeys == 2

\* aliases: { paymentId: ["id"] }
OverrideAliases == << [k |-> paymentId, v |-> <<id>>] >>

\* transforms: { amount: GuardedNumber }
OverrideTransforms == << [k |-> amount, v |-> "GuardedNumber"] >>

MergeOptionSets == [aliases : {<<>>, OverrideAliases},
                    transforms : {<<>>, OverrideTransforms, CallTransforms},
                    strictMode : {"undefined"}]

MergeKeys == {payId, pay_id, id, amount, age}

MergeValues == {Str30, StrInvalid}

MergePayloads ==
  { p \in UNION { [1..m -> [k : MergeKeys, v : MergeValues]] : m \in 0..MergeMaxKeys } :
      \A i, j \in 1..Len(p) : i # j => p[i].k # p[j].k }

\* the populate call a constructor makes, with options naming fields that the
\* decorators name too
PopulateOverride ==
  /\ call.n = 0
  /\ \E data \in MergePayloads, options \in MergeOptionSets, dev \in BOOLEAN :
       PopulateWith(data, options, dev)

NextMerge == PopulateOverride \/ PopulateNonObject

SpecMerge == Init /\ [][NextMerge]_vars

(***************************************************************************)
(* Populating with keys, aliases and transforms that carry underscores     *)
(***************************************************************************)
\* the largest number of keys of one payload, where names carry underscores
UnderMaxKeys == 2

\* aliases: { _opts: ["id", "pay_id"], paymentId: ["_strictMode", "pay_id"] }
UnderAliases == << [k |-> optsName, v |-> <<id, pay_id>>],
                   [k |-> paymentId, v |-> <<strictModeName, pay_id>>] >>

\* transforms: { _opts: Number, _strictMode: Number }
UnderTransforms == << [k |-> optsName, v |-> "Number"],
                      [k |-> strictModeName, v |-> "Number"] >>

UnderOptionSets == [aliases : {<<>>, UnderAliases},
                    transforms : {<<>>, UnderTransforms},
                    strictMode : {"undefined", "true"}]

UnderKeys == {pay_id, pay__id, is_active, paymentId, id, optsName, strictModeName}

UnderValues == {Str30}

UnderPayloads ==
  { p \in UNION { [1..m -> [k : UnderKeys, v : UnderValues]] : m \in 0..UnderMaxKeys } :
      \A i, j \in 1..Len(p) : i # j => p[i].k # p[j].k }

\* the populate call a constructor makes, handed names that carry underscores
PopulateUnder ==
  /\ call.n = 0
  /\ \E data \in UnderPayloads, options \in UnderOptionSets, dev \in BOOLEAN :
       PopulateWith(data, options, dev)

NextUnder == PopulateUnder \/ PopulateNonObject

SpecUnder == Init /\ [][NextUnder]_vars

(***************************************************************************)
(* Properties                                                              *)
(***************************************************************************)
\* the iterations of the latest init call
Steps == call.steps

\* the i-th iteration resolved a field and went on to the value pipeline
Piped(i) == Steps[i].outcome \in {"assigned", "raised"}

\* no later iteration of the call assigned the field the i-th one resolved
LastWriter(i) ==
  \A j \in (i + 1)..Len(Steps) :
    ~(Steps[j].outcome = "assigned" /\ Steps[j].target = Steps[i].target)

\* the key names the property p: verbatim, by case conversion or by alias
NamesField(key, p, aliases) ==
  \/ key = p
  \/ toCamelCase(key) = p
  \/ /\ HasOwn(aliases, p)
     /\ AliasHit(TableGet(aliases, p), key, toCamelCase(key))

\* the value populate is to leave on field f for the raw value
ExpectedValue(f, value, options) ==
  LET t == TableGet(MergedTransforms(options), f)
  IN  IF t # "none" /\ ApplyTransform(t, value).ok
      THEN ApplyTransform(t, value).val ELSE value

\* C1: populating with the single entry {k: v}, k a key of the merged alias
\* list of the declared field f and v defined, assigns f (to v, or to
\* transform(v)).  Stated for the calls that return.
C1_AliasKeyAssigns ==
  (call.kind = "init" /\ Len(call.data) = 1 /\ ~threw
     /\ call.data[1].v # Undefined) =>
    \A i \in 1..Len(DeclaredFields) :
      LET f == DeclaredFields[i]
          merged == MergedAliases(call.options)
      IN  (HasOwn(merged, f) /\ Includes(TableGet(merged, f), call.data[1].k)) =>
            Get(inst, f) = ExpectedValue(f, call.data[1].v, call.options)

\* C2: populating a fresh instance with the single key f, a declared field,
\* and populating it with the single key toSnake(f) leave f with the same
\* value.  Stated for the fields whose snake_case spelling converts back to f.
C2_EitherSpelling ==
  (call.kind = "init" /\ Len(call.data) = 1
     /\ call.data[1].v # Undefined
     /\ Includes(DeclaredFields, call.data[1].k)
     /\ toCamelCase(toSnakeCase(call.data[1].k)) = call.data[1].k) =>
    LET f == call.data[1].k
        snake == << [k |-> toSnakeCase(f), v |-> call.data[1].v] >>
    IN  Get(inst, f) =
          Get(RunInit(call.pre, snake, call.options, call.auto, call.dev).obj, f)

\* C3: an init call changes only the properties that some payload key with a
\* defined value names (verbatim, by case conversion or by alias); every other
\* property, a field whose value in the payload is undefined included, keeps
\* its value, and no property is removed, on the first call and on a later one.
C3_Frame ==
  call.kind = "init" =>
    /\ \A i \in 1..Len(call.pre) : HasOwn(inst, call.pre[i].k)
    /\ \A i \in 1..Len(inst) :
         LET p == inst[i].k
         IN  (~HasOwn(call.pre, p) \/ Get(call.pre, p) # inst[i].v) =>
               \E j \in 1..Len(call.data) :
                 /\ call.data[j].v # Undefined
                 /\ NamesField(call.data[j].k, p, MergedAliases(call.options))

\* a second call assigned age and left the paymentId the first call had set
C3_Witness ==
  /\ call.kind = "init"
  /\ call.n = 2
  /\ Get(call.pre, paymentId) = Str30
  /\ Get(inst, paymentId) = Str30
  /\ Get(call.pre, age) = Num0
  /\ Get(inst, age) = Str30

\* C4: where a transform is registered for the resolved field and returns for
\* the raw value (null included), the field is assigned exactly what it
\* returned, and no warning is written for the key.
C4_TransformResultAssigned ==
  call.kind = "init" =>
    \A i \in 1..Len(Steps) :
      LET t == TableGet(MergedTransforms(call.options), Steps[i].target)
      IN  (Piped(i) /\ t # "none" /\ ApplyTransform(t, Steps[i].raw).ok) =>
            /\ Steps[i].outcome = "assigned"
            /\ Steps[i].final = ApplyTransform(t, Steps[i].raw).val
            /\ Steps[i].warned = "none"
            /\ LastWriter(i) =>
                 Get(inst, Steps[i].target) = ApplyTransform(t, Steps[i].raw).val

\* products: null became the empty list and age: "30" became 30
C4_Witness ==
  /\ call.kind = "init"
  /\ call.data = << [k |-> products, v |-> Null], [k |-> age, v |-> Str30] >>
  /\ call.options.transforms = CallTransforms
  /\ Get(inst, products) = ArrEmpty
  /\ Get(inst, age) = Num30

\* C5: no Type Mismatch warning names a field that has a transform, from the
\* options or from the static declaration.
C5_TransformNeverMismatch ==
  call.kind = "init" =>
    \A i \in 1..Len(diags) :
      diags[i].type = "TypeMismatch" =>
        TableGet(MergedTransforms(call.options), diags[i].field) = "none"

\* warnings were on, a string reached the statically transformed number field
\* amount, and nothing was written
C5_Witness ==
  /\ call.kind = "init"
  /\ EffectiveStrict(call.options, call.auto)
  /\ call.dev
  /\ call.data = << [k |-> amount, v |-> Str30] >>
  /\ Steps[1].cur = Num0
  /\ Steps[1].transform = "Number"
  /\ Get(inst, amount) = Num30
  /\ diags = <<>>

\* C6: where the transform of the resolved field raises on the raw value, the
\* call does not raise at that key, the field is assigned the raw value, and
\* the next key of the payload is handled.
C6_TransformFailureKeepsRaw ==
  call.kind = "init" =>
    \A i \in 1..Len(Steps) :
      LET t == TableGet(MergedTransforms(call.options), Steps[i].target)
      IN  (Piped(i) /\ t # "none" /\ ~ApplyTransform(t, Steps[i].raw).ok) =>
            /\ Steps[i].outcome = "assigned"
            /\ Steps[i].final = Steps[i].raw
            /\ i < Len(call.data) => Len(Steps) > i
            /\ LastWriter(i) => Get(inst, Steps[i].target) = Steps[i].raw

\* the transform of age raised on "invalid"; age holds "invalid" and the next
\* key, payment_id, was assigned
C6_Witness ==
  /\ call.kind = "init"
  /\ ~threw
  /\ call.data = << [k |-> age, v |-> StrInvalid], [k |-> payment_id, v |-> Str30] >>
  /\ Steps[1].transform = "GuardedNumber"
  /\ Get(call.pre, age) = Num0
  /\ Get(inst, age) = StrInvalid
  /\ Get(inst, paymentId) = Str30

\* C7: no init call lets an exception out.
C7_NeverThrows == ~threw

\* C8: the instance after an init call is the instance the same call leaves
\* with strictMode: false.
C8_DiagnosticsNeverChangeData ==
  call.kind = "init" =>
    inst = RunInit(call.pre, call.data,
                   [call.options EXCEPT !.strictMode = "false"],
                   call.auto, call.dev).obj

\* the i-th iteration assigned a value whose type tag differs from that of the
\* defined value the field held, no transform being registered
TypeDiffers(i) ==
  /\ Piped(i)
  /\ Steps[i].transform = "none"
  /\ Steps[i].cur # Undefined
  /\ TypeOf(Steps[i].raw) # TypeOf(Steps[i].cur)

\* the transform of the i-th iteration raised
TransformRaised(i) ==
  /\ Piped(i)
  /\ Steps[i].transform # "none"
  /\ ~ApplyTransform(Steps[i].transform, Steps[i].raw).ok

\* C9: with strictMode: true every type mismatch and every transform failure
\* writes a warning, whatever the ambient flag; with strictMode: false nothing
\* is written.  Stated for the calls that return.
C9_StrictModeWins ==
  (call.kind = "init" /\ ~threw) =>
    /\ call.options.strictMode = "true" =>
         \A i \in 1..Len(Steps) :
           (TypeDiffers(i) \/ TransformRaised(i)) => Steps[i].warned # "none"
    /\ call.options.strictMode = "false" => diags = <<>>

\* C10: with warnings on (strict mode in effect, development flag set), no
\* transform and a defined current value, a key writes one Type Mismatch
\* warning naming the field if and only if the type tags differ.
C10_MismatchIffTypeDiffers ==
  (call.kind = "init" /\ EffectiveStrict(call.options, call.auto) /\ call.dev) =>
    /\ \A i \in 1..Len(Steps) :
         (Piped(i) /\ Steps[i].transform = "none" /\ Steps[i].cur # Undefined) =>
           (Steps[i].warned = "TypeMismatch" <=> TypeDiffers(i))
    /\ Cardinality({ j \in 1..Len(diags) : diags[j].type = "TypeMismatch" })
         = Cardinality({ i \in 1..Len(Steps) : Steps[i].warned = "TypeMismatch" })

\* C11: populating with the single entry {f: v}, f a declared field without an
\* initializer and v defined, leaves f holding v and writes no warning,
\* whatever the type of v and whatever the strict mode and the ambient flag.
C11_UninitializedFieldTakesRaw ==
  (call.kind = "init" /\ Len(call.data) = 1
     /\ call.data[1].v # Undefined
     /\ Includes(DeclaredFields, call.data[1].k)
     /\ call.data[1].k \notin InitializedFields) =>
    /\ Get(inst, call.data[1].k) = call.data[1].v
    /\ diags = <<>>
    /\ ~threw

\* C12: every property of the instance after an init call is a declared field,
\* and a payload key that names no declared field (verbatim, by case
\* conversion or by alias) is not assigned.
C12_OnlyDeclaredFields ==
  call.kind = "init" =>
    /\ \A i \in 1..Len(inst) : Includes(DeclaredFields, inst[i].k)
    /\ \A i \in 1..Len(Steps) :
         (\A j \in 1..Len(DeclaredFields) :
            ~NamesField(Steps[i].key, DeclaredFields[j],
                        MergedAliases(call.options))) =>
           Steps[i].outcome # "assigned"

\* the set of the keys of an entry list
KeySet(obj) == { obj[i].k : i \in 1..Len(obj) }

\* the instance with the bookkeeping properties of the base class
This == OwnProperties(inst, opts, autoStrict)

\* C13: after construction and after every init call, the keys of
\* toPlain(false) are exactly the declared fields of the class, and the keys of
\* toPlain(true) are exactly their toSnakeCase projections.
C13_PlainKeysAreDeclaredFields ==
  LET declared == { DeclaredFields[i] : i \in 1..Len(DeclaredFields) }
  IN  /\ KeySet(toPlain(This, FALSE)) = declared
      /\ KeySet(toPlain(This, TRUE)) = { toSnakeCase(f) : f \in declared }

\* the instances held by the properties this, directly or as array items
HeldInstances(this) ==
  { this[i].v : i \in { n \in 1..Len(this) : this[n].v.kind = "dto" } }
    \cup UNION { { this[i].v.val.items[j] :
                     j \in { m \in 1..Len(this[i].v.val.items) :
                               this[i].v.val.items[m].kind = "dto" } } :
                 i \in { n \in 1..Len(this) : this[n].v.kind = "array" } }

\* what toPlain(flag) is to emit for a field holding v
Projected(v, flag) ==
  LET plainOf(x) == PlainOf("own", toPlain(x.val.props, flag))
  IN  CASE v.kind = "dto" -> plainOf(v)
        [] v.kind = "array" ->
             ArrayOf("own", [j \in 1..Len(v.val.items) |->
                               IF v.val.items[j].kind = "dto"
                               THEN plainOf(v.val.items[j])
                               ELSE v.val.items[j]])
        [] OTHER -> v

\* toPlain(flag) of the instance with the properties this emits, for every
\* field, the projection of the value the field holds
ProjectsFields(this, flag) ==
  LET out(key) == IF flag THEN toSnakeCase(key) ELSE key
  IN  \A i \in 1..Len(this) :
        (/\ ~StartsWithUnderscore(this[i].k)
         /\ TypeOf(this[i].v) # "function"
         /\ \A j \in (i + 1)..Len(this) : out(this[j].k) # out(this[i].k)) =>
          /\ HasOwn(toPlain(this, flag), out(this[i].k))
          /\ Get(toPlain(this, flag), out(this[i].k)) = Projected(this[i].v, flag)

RECURSIVE EmittedKeys(_)
\* the keys of a value toPlain built, at every depth: those of the objects it
\* allocated, whether held by a property or by an array it allocated
EmittedKeys(v) ==
  CASE v.kind = "object" /\ v.val.ref = "own" ->
         KeySet(v.val.props)
           \cup UNION { EmittedKeys(v.val.props[i].v) : i \in 1..Len(v.val.props) }
    [] v.kind = "array" /\ v.val.ref = "own" ->
         UNION { EmittedKeys(v.val.items[i]) : i \in 1..Len(v.val.items) }
    [] OTHER -> {}

\* C14: toPlain(flag) emits, for a field or an array item that is an instance,
\* that instance's toPlain(flag), with the same flag at every depth (under
\* true no emitted key at any depth keeps an upper-case letter), and passes on
\* unchanged every other array item and every other field value.
C14_ProjectsNestedInstances ==
  call.kind = "init" =>
    \A flag \in BOOLEAN :
      /\ ProjectsFields(This, flag)
      /\ \A x \in HeldInstances(This) :
           /\ ProjectsFields(x.val.props, flag)
           /\ \A y \in HeldInstances(x.val.props) :
                ProjectsFields(y.val.props, flag)
      /\ flag =>
           \A k \in EmittedKeys(PlainOf("own", toPlain(This, TRUE))) :
             \A n \in 1..Len(k) : ~IsUpper(k[n])

\* products holds an array the payload made, of an instance, a string and a
\* plain object, and paymentId holds an instance that holds such an array
C14_Witness ==
  /\ call.kind = "init"
  /\ Get(inst, products) = ItemList
  /\ Get(inst, paymentId) = BundleProduct
  /\ Get(toPlain(This, TRUE), products).val.items[2] = Str30
  /\ Get(toPlain(This, TRUE), products).val.items[3] = PlainItem

\* the value is a primitive
IsPrimitive(v) == v.kind \notin {"array", "object", "dto", "function"}

\* toPlain(false) of a fresh instance of the class populated from
\* x.toPlain(true) with the options o, _strictMode being auto and the ambient
\* flag dev; threw tells that the populate call raised
RoundTrip(x, o, auto, dev) ==
  LET r == RunInit(NewInstance(legacyFields), toPlain(x, TRUE), o, auto, dev)
  IN  [threw |-> r.threw,
       plain |-> toPlain(OwnProperties(r.obj, o, auto), FALSE)]

\* C15: populating a fresh instance of the class from toPlain(true) of the
\* instance, with the options the instance was populated with, returns, and
\* its toPlain(false) has every primitive entry of the instance's
\* toPlain(false), whatever the ambient flag at the two reads.
C15_RoundTrip ==
  \A auto \in BOOLEAN, dev \in BOOLEAN :
    LET back == RoundTrip(This, opts, auto, dev)
        plain == toPlain(This, FALSE)
    IN  /\ ~back.threw
        /\ \A i \in 1..Len(plain) :
             IsPrimitive(plain[i].v) =>
               /\ HasOwn(back.plain, plain[i].k)
               /\ Get(back.plain, plain[i].k) = plain[i].v

\* C16: running init again on the populated instance with the payload and the
\* options of the first call, the ambient flag being as it was, leaves every
\* property with the value the first call left, and adds none.
C16_Idempotent ==
  call.kind = "init" =>
    RunInit(inst, call.data, call.options, autoStrict, call.dev).obj = inst

\* the entry of field f in force: the per-call one where the options have
\* one, the static one otherwise; "none" where neither has
InForce(perCall, static, f) ==
  IF HasOwn(perCall, f) THEN TableGet(perCall, f) ELSE TableGet(static, f)

\* C17: init applies to a resolved field the transform of the options where the
\* options name the field, else the static one; and a key that matches no
\* field by name resolves to a field by alias exactly where the alias list in
\* force for that field (the per-call list where there is one, replacing the
\* static list, else the static list) holds the key or its camelCase form.
C17_PerCallEntryWins ==
  call.kind = "init" =>
    \A i \in 1..Len(Steps) :
      LET key == Steps[i].key
          camelKey == toCamelCase(key)
          fields == getClassFields(call.pre)
          byAlias == { n \in 1..Len(fields) :
                         LET list == InForce(call.options.aliases, StaticAliases,
                                             fields[n])
                         IN  list # "none" /\ AliasHit(list, key, camelKey) }
      IN  /\ Piped(i) =>
               Steps[i].transform =
                 InForce(call.options.transforms, StaticTransforms, Steps[i].target)
          /\ (/\ Steps[i].outcome # "skipped"
              /\ ~Includes(fields, key)
              /\ ~Includes(fields, camelKey)) =>
               IF byAlias # {}
               THEN \E n \in byAlias : Steps[i].target = fields[n]
               ELSE Steps[i].target \in {NoField, camelKey}

\* the options replaced both static entries: payId, in the static alias list
\* only, named no field, and amount went through the transform of the options,
\* which raised where the static Number would have returned
C17_Witness ==
  /\ call.kind = "init"
  /\ call.options.aliases = OverrideAliases
  /\ call.options.transforms = OverrideTransforms
  /\ call.data = << [k |-> payId, v |-> Str30], [k |-> amount, v |-> StrInvalid] >>
  /\ Steps[1].outcome = "dropped"
  /\ Steps[2].transform = "GuardedNumber"
  /\ Get(inst, amount) = StrInvalid

\* the init call changed or added the property p
Written(p) == ~HasOwn(call.pre, p) \/ Get(call.pre, p) # Get(inst, p)

PreFull == OwnProperties(call.pre, opts, call.auto)

\* what the latest init call leaves of them
PostFull ==
  RunInit(PreFull, call.data, call.options, call.auto, call.dev).obj

\* C19: init skips a payload key that begins with an underscore, and whatever
\* the payload, the alias table and the transform table name, it changes and
\* adds no property whose name begins with an underscore: _opts and
\* _strictMode keep what init itself and the constructor stored.
C19_UnderscoreNamesUntouched ==
  call.kind = "init" =>
    /\ \A i \in 1..Len(Steps) :
         StartsWithUnderscore(Steps[i].key) => Steps[i].outcome = "skipped"
    /\ \A i \in 1..Len(inst) : ~StartsWithUnderscore(inst[i].k)
    /\ \A i \in 1..Len(PostFull) :
         StartsWithUnderscore(PostFull[i].k) =>
           /\ HasOwn(PreFull, PostFull[i].k)
           /\ Get(PreFull, PostFull[i].k) = PostFull[i].v
    /\ SelectSeq(PostFull, LAMBDA e : ~StartsWithUnderscore(e.k)) = inst
    /\ call.auto = autoStrict
    /\ opts = call.options

\* the payload named _opts and a key the alias list of _opts holds, with a
\* transform registered for _opts: neither was assigned
C19_Witness ==
  /\ call.kind = "init"
  /\ call.options.aliases = UnderAliases
  /\ call.options.transforms = UnderTransforms
  /\ call.data = << [k |-> optsName, v |-> Str30], [k |-> id, v |-> Str30] >>
  /\ Steps[1].outcome = "skipped"
  /\ Steps[2].outcome = "dropped"
  /\ inst = call.pre

\* the value is a reference the producer of the payload allocated
IsDataReference(v) ==
  v.kind \in {"array", "dto", "object"} /\ v.val.ref = "data"

\* a second instance of the class, constructed and populated as the first was,
\* from the same payload object
Sibling ==
  RunInit(NewInstance(legacyFields), call.data, call.options, call.auto, call.dev)

\* the j-th iteration of a call left the object of its payload entry on field f
KeepsPayloadObject(steps, j, f) ==
  /\ steps[j].outcome = "assigned"
  /\ steps[j].target = f
  /\ steps[j].final = steps[j].raw
  /\ IsDataReference(steps[j].raw)
  /\ \A n \in (j + 1)..Len(steps) :
       ~(steps[n].outcome = "assigned" /\ steps[n].target = f)

\* C20: no array, instance or object that a field of the instance holds is
\* held by a field of a second instance populated from the same payload
\* object.
C20_NoSharedReference ==
  (call.kind = "init" /\ call.n = 1) =>
    \A j \in 1..Len(call.data) :
      \A i \in 1..Len(inst) :
        ~(/\ KeepsPayloadObject(Steps, j, inst[i].k)
          /\ \E f \in KeySet(Sibling.obj) :
               KeepsPayloadObject(Sibling.steps, j, f))

(***************************************************************************)
(* Instances that refer to one another                                     *)
(*                                                                         *)
(* The two mutually nested classes of the tests, cut to two fields each:   *)
(*   class Center extends FlexDto { centerId = ""; manager = null;         *)
(*     constructor(data) { super(); this.init(data,                        *)
(*       { transforms: { manager: (v) => (v ? new User(v) : null) } }); } } *)
(*   class User extends FlexDto { userId = ""; center = null;              *)
(*     constructor(data) { super(); this.init(data,                        *)
(*       { transforms: { center: (v) => (v ? new Center(v) : null) } }); } } *)
(* heap holds the instances in allocation order; a field refers to an      *)
(* instance by its place in heap, so that two fields can hold the same     *)
(* instance and an instance can be reached from itself.                    *)
(***************************************************************************)
\* the largest number of instances the program allocates
MaxObjects == 3

\* The call stack admits more toPlain frames than the program has instances,
\* so only a descent that comes back to an instance it is in exhausts it.
StackLimit == MaxObjects + 1

center     == <<"c","e","n","t","e","r">>
centerId   == <<"c","e","n","t","e","r","I","d">>
manager    == <<"m","a","n","a","g","e","r">>

HeapClasses == {"User", "Center"}

\* the field of the class that holds a string
IdField(cls) == IF cls = "User" THEN userId ELSE centerId

\* the field of the class that holds an instance of the other class, or null
NestedField(cls) == IF cls = "User" THEN center ELSE manager

\* the class the transform of the nested field constructs
NestedClass(cls) == IF cls = "User" THEN "Center" ELSE "User"

\* the own properties of the subclass after the field initializers ran
HeapDefaults(cls) ==
  << [k |-> IdField(cls), v |-> StrEmpty], [k |-> NestedField(cls), v |-> Null] >>

\* a reference to the i-th instance of heap
RefTo(i) == [kind |-> "dto", val |-> [ref |-> "heap", at |-> i]]

\* value instanceof FlexDto, for a value of this heap
IsRef(v) == v.kind = "dto" /\ v.val.ref = "heap"

\* v ? ... : ..., for the values a payload of these classes holds
Truthy(v) == v \notin {Undefined, Null, StrEmpty}

RECURSIVE Construct(_, _, _)
RECURSIVE ConstructFrom(_, _, _, _, _)
\* the loop of init in the constructor of the instance at place me, from the
\* i-th entry of data on, for payloads that spell the fields verbatim: the
\* string field takes the value, the nested field what its transform returns
ConstructFrom(h, me, cls, data, i) ==
  IF i > Len(data) THEN h
  ELSE
    LET e == data[i]
        made == Construct(h, NestedClass(cls),
                          IF e.v.kind = "object" THEN e.v.val.props ELSE <<>>)
    IN  IF SkipsEntry(e.k, e.v) THEN ConstructFrom(h, me, cls, data, i + 1)
        ELSE IF e.k = NestedField(cls)
        THEN IF Truthy(e.v)
             THEN ConstructFrom(
                    [made EXCEPT ![me].props = SetProp(@, e.k, RefTo(Len(h) + 1))],
                    me, cls, data, i + 1)
             ELSE ConstructFrom([h EXCEPT ![me].props = SetProp(@, e.k, Null)],
                                me, cls, data, i + 1)
        ELSE IF e.k = IdField(cls)
        THEN ConstructFrom([h EXCEPT ![me].props = SetProp(@, e.k, e.v)],
                           me, cls, data, i + 1)
        ELSE ConstructFrom(h, me, cls, data, i + 1)

\* new cls(data): the heap with the new instance, and with the instances the
\* transforms of its constructor made, behind it
Construct(h, cls, data) ==
  ConstructFrom(Append(h, [cls |-> cls, props |-> HeapDefaults(cls)]),
                Len(h) + 1, cls, data, 1)

\* the payloads handed to the constructor of cls
HeapPayloads(cls) ==
  LET other == NestedClass(cls)
  IN  { <<>>,
        << [k |-> IdField(cls), v |-> Str30] >>,
        << [k |-> NestedField(cls), v |-> Null] >>,
        << [k |-> NestedField(cls), v |-> Str30] >>,
        << [k |-> IdField(cls), v |-> Str30],
           [k |-> NestedField(cls),
            v |-> PlainOf("data", << [k |-> IdField(other), v |-> Str30] >>)] >> }

\* The value toPlain had returned when the stack was exhausted: none, a
\* RangeError left the call.
Raised == [status |-> "raised"]

Returned(v) == [status |-> "returned", val |-> v]

RECURSIVE PlainAt(_, _, _, _)
RECURSIVE MapAt(_, _, _, _, _, _)
RECURSIVE FieldsAt(_, _, _, _, _, _, _)
\* value.map((item) => item instanceof FlexDto ? item.toPlain(flag) : item),
\* from the j-th item on
MapAt(h, items, j, useSnakeCase, depth, mapped) ==
  IF j > Len(items) THEN Returned(ArrayOf("own", mapped))
  ELSE
    LET item == items[j]
        out == IF IsRef(item) THEN PlainAt(h, item.val.at, useSnakeCase, depth + 1)
               ELSE Returned(item)
    IN  IF out.status = "raised" THEN Raised
        ELSE MapAt(h, items, j + 1, useSnakeCase, depth, Append(mapped, out.val))

\* the loop of toPlain over classFields, from the i-th field on, in the frame
\* at the given depth of the call stack
FieldsAt(h, this, classFields, i, useSnakeCase, depth, result) ==
  IF i > Len(classFields) THEN Returned(PlainOf("own", result))
  ELSE
    LET key == classFields[i]
        value == Get(this, key)
        outputKey == IF useSnakeCase THEN toSnakeCase(key) ELSE key
        out == IF IsRef(value)
               THEN PlainAt(h, value.val.at, useSnakeCase, depth + 1)
               ELSE IF value.kind = "array"
               THEN MapAt(h, value.val.items, 1, useSnakeCase, depth, <<>>)
               ELSE Returned(value)
    IN  IF TypeOf(value) = "function" \/ StartsWithUnderscore(key)
        THEN FieldsAt(h, this, classFields, i + 1, useSnakeCase, depth, result)
        ELSE IF out.status = "raised" THEN Raised
        ELSE FieldsAt(h, this, classFields, i + 1, useSnakeCase, depth,
                      SetProp(result, outputKey, out.val))

\* toPlain(useSnakeCase) of the instance at place at, called at the given
\* depth of the call stack
PlainAt(h, at, useSnakeCase, depth) ==
  IF depth > StackLimit THEN Raised
  ELSE FieldsAt(h, h[at].props, getClassFields(h[at].props), 1,
                useSnakeCase, depth, <<>>)

\* the values the program assigns to a nested field from outside
Assignable ==
  {Null}
    \cup { RefTo(j) : j \in 1..Len(heap) }
    \cup { ArrayOf("data", <<Str30, RefTo(j)>>) : j \in 1..Len(heap) }

\* the program has loaded the classes and holds no instance yet
InitHeap ==
  /\ legacyFields = FALSE
  /\ inst = <<>>
  /\ opts = EmptyOptions
  /\ autoStrict = FALSE
  /\ call = NoCall
  /\ diags = <<>>
  /\ threw = FALSE
  /\ ctor = "none"
  /\ aliasMetadata = <<>>
  /\ transformMetadata = <<>>
  /\ heap = <<>>
  /\ plainOut = NoResult
  /\ word = <<>>
  /\ converted = NoResult

\* what an operation on the heap leaves alone
heapRest == <<legacyFields, inst, opts, autoStrict, call, diags, threw,
              ctor, aliasMetadata, transformMetadata, word, converted>>

\* new User(data), new Center(data)
NewNested ==
  \E cls \in HeapClasses : \E data \in HeapPayloads(cls) :
    /\ Len(Construct(heap, cls, data)) <= MaxObjects
    /\ heap' = Construct(heap, cls, data)
    /\ plainOut' = NoResult
    /\ UNCHANGED heapRest

\* x.f = v, from outside the class
Reassign ==
  \E i \in 1..Len(heap) : \E v \in Assignable :
      /\ heap' = [heap EXCEPT ![i].props = SetProp(@, NestedField(heap[i].cls), v)]
      /\ plainOut' = NoResult
      /\ UNCHANGED heapRest

\* x.toPlain(useSnakeCase)
CallToPlain ==
  \E i \in 1..Len(heap) : \E useSnakeCase \in BOOLEAN :
    /\ plainOut' = PlainAt(heap, i, useSnakeCase, 1)
    /\ UNCHANGED heap
    /\ UNCHANGED heapRest

NextHeap == NewNested \/ Reassign \/ CallToPlain

SpecHeap == InitHeap /\ [][NextHeap]_vars

\* C21: toPlain returns a value for every graph of instances that
\* construction, populate and assignment from outside can build, a graph in
\* which an instance is reached from itself included.
C21_ToPlainReturns == plainOut.status # "raised"

\* C22: for an init call made without a strictMode, the warnings written are
\* those the same call writes while the ambient flag is as the constructor
\* sampled it: a change of the flag between construction and the call changes
\* no warning.
C22_SampledFlagDecides ==
  (call.kind = "init" /\ call.options.strictMode = "undefined") =>
    diags = RunInit(call.pre, call.data, call.options, call.auto, call.auto).diags

\* C23: after construction and after every init call, toJSON() returns what
\* toPlain(false) returns: the same keys in the same order, each with the same
\* value, nested instances projected with camelCase keys as well.
C23_ToJSONIsToPlainFalse ==
  /\ toJSON(This) = toPlain(This, FALSE)
  /\ KeysOf(toJSON(This)) = getClassFields(This)

\* the instance holds an array with a nested instance, and the snake_case
\* projection differs from what toJSON returns
C23_Witness ==
  /\ call.kind = "init"
  /\ Get(inst, products) = ItemList
  /\ Get(toJSON(This), products).val.items[1]
       = PlainOf("own", toPlain(LeafProduct.val.props, FALSE))
  /\ toJSON(This) # toPlain(This, TRUE)

(***************************************************************************)
(* The case converter on its own                                           *)
(***************************************************************************)
\* the largest length of a name handed to the converter
MaxWordLen == 4

\* the characters names are built from: a lower-case letter, two upper-case
\* letters, the underscore and a digit
WordChars == {"a", "B", "C", "_", "1"}

Words == UNION { [1..n -> WordChars] : n \in 0..MaxWordLen }

\* the program has loaded the library and holds a name
InitCase ==
  /\ legacyFields = FALSE
  /\ inst = <<>>
  /\ opts = EmptyOptions
  /\ autoStrict = FALSE
  /\ call = NoCall
  /\ diags = <<>>
  /\ threw = FALSE
  /\ ctor = "none"
  /\ aliasMetadata = <<>>
  /\ transformMetadata = <<>>
  /\ heap = <<>>
  /\ plainOut = NoResult
  /\ word \in Words
  /\ converted = NoResult

\* what a case conversion leaves alone
caseRest == <<legacyFields, inst, opts, autoStrict, call, diags, threw,
              ctor, aliasMetadata, transformMetadata, heap, plainOut, word>>

\* toSnakeCase(word), as toPlain(true) calls it on a field name
CallToSnake ==
  /\ converted.status = "none"
  /\ converted' = [status |-> "snake", given |-> word, out |-> toSnakeCase(word)]
  /\ UNCHANGED caseRest

\* toCamelCase of what toSnakeCase returned, as init calls it on a payload key
CallToCamel ==
  /\ converted.status = "snake"
  /\ converted' = [status |-> "camel", given |-> converted.out,
                   out |-> toCamelCase(converted.out)]
  /\ UNCHANGED caseRest

NextCase == CallToSnake \/ CallToCamel

SpecCase == InitCase /\ [][NextCase]_vars

\* the keys toPlain(true) emits for an instance whose one declared field is f
EmittedFor(f) == KeysOf(toPlain(<< [k |-> f, v |-> StrEmpty] >>, TRUE))

\* C24: for every declared field name f, toCamelCase of the key that
\* toPlain(true) emits for f, which is toSnakeCase(f), is f.
C24_CamelOfSnakeIsField ==
  (converted.status = "camel" /\ EmittedFor(word) # <<>>) =>
    /\ EmittedFor(word) = <<converted.given>>
    /\ converted.out = word

\* the name begins with a lower-case letter, has no underscore directly before
\* a lower-case letter, and has no upper-case letter that follows an upper-case
\* letter without a lower-case letter behind it
CamelCaseName(f) ==
  /\ Len(f) > 0
  /\ IsLower(f[1])
  /\ \A i \in 1..(Len(f) - 1) : ~(f[i] = "_" /\ IsLower(f[i + 1]))
  /\ \A i \in 2..Len(f) :
       (IsUpper(f[i]) /\ IsUpper(f[i - 1])) => (i < Len(f) /\ IsLower(f[i + 1]))

\* C24, amended: for every declared field name f that is a camelCase name,
\* toCamelCase of the key that toPlain(true) emits for f is f.
C24_CamelOfSnakeIsCamelCaseField ==
  (converted.status = "camel" /\ CamelCaseName(word)) =>
    /\ EmittedFor(word) = <<converted.given>>
    /\ converted.out = word

\* aBaC went out as a_ba_c and came back as aBaC
C24_Witness ==
  /\ converted.status = "camel"
  /\ word = <<"a", "B", "a", "C">>
  /\ converted.given = <<"a", "_", "b", "a", "_", "c">>
  /\ converted.out = word

\* the upper-case letter at place i of s continues an upper-case run and has
\* no lower-case letter directly behind it
InsideRun(s, i) ==
  /\ i > 1
  /\ IsUpper(s[i - 1])
  /\ ~(i < Len(s) /\ IsLower(s[i + 1]))

\* toSnake is to put a separator before the character at place i of s
SeparatorBefore(s, i) == i > 1 /\ IsUpper(s[i]) /\ ~InsideRun(s, i)

\* the place in toSnake(s) of the character at place i of s
PlaceOf(s, i) == i + Cardinality({ j \in 1..i : SeparatorBefore(s, j) })

\* C25: toSnake(s) is s with every upper-case letter lower-cased and an
\* underscore put directly before every upper-case letter but the first
\* character of s and but a letter that continues an upper-case run and is
\* not directly followed by a lower-case letter: it has no upper-case letter,
\* no separator before its first character, and none between the letters of
\* an acronym run.
C25_SeparatesWordsNotAcronyms ==
  converted.status = "snake" =>
    LET s == word
        o == converted.out
    IN  /\ Len(o) = PlaceOf(s, Len(s))
        /\ \A i \in 1..Len(s) :
             /\ o[PlaceOf(s, i)] = ToLowerChar(s[i])
             /\ SeparatorBefore(s, i) => o[PlaceOf(s, i) - 1] = "_"
             /\ (IsUpper(s[i]) /\ InsideRun(s, i)) =>
                  PlaceOf(s, i) = PlaceOf(s, i - 1) + 1
        /\ \A n \in 1..Len(o) : ~IsUpper(o[n])
        /\ Len(s) > 0 => o[1] = ToLowerChar(s[1])

\* aaBC became aa_bc: a separator before B, which starts the run, and none
\* before C, inside it
C25_Witness ==
  /\ converted.status = "snake"
  /\ word = <<"a", "a", "B", "C">>
  /\ converted.out = <<"a", "a", "_", "b", "c">>

(***************************************************************************)
(* Populating with keys that name one field and are aliases of another     *)
(***************************************************************************)
\* the largest number of keys of one payload, where aliases name fields
OrderMaxKeys == 2

\* aliases: { age: ["paymentId", "payment_id", "isActive", "is_active"] }
OrderAliases ==
  << [k |-> age, v |-> <<paymentId, payment_id, isActive, is_active>>] >>

OrderOptionSets == [aliases : {<<>>, OrderAliases},
                    transforms : {<<>>},
                    strictMode : {"undefined", "true"}]

OrderKeys == {paymentId, payment_id, isActive, is_active, amount, id}

OrderValues == {Str30}

OrderPayloads ==
  { p \in UNION { [1..m -> [k : OrderKeys, v : OrderValues]] : m \in 0..OrderMaxKeys } :
      \A i, j \in 1..Len(p) : i # j => p[i].k # p[j].k }

\* the populate call a constructor makes, with an alias list that holds the
\* names of other fields
PopulateOrder ==
  /\ call.n = 0
  /\ \E data \in OrderPayloads, options \in OrderOptionSets, dev \in BOOLEAN :
       PopulateWith(data, options, dev)

NextOrder == PopulateOrder \/ PopulateNonObject

SpecOrder == Init /\ [][NextOrder]_vars

\* C26: a payload key that is a declared field A verbatim, or whose camelCase
\* form is A, is assigned to A, also where the alias list of another declared
\* field B holds the key: no such key is assigned to B.
C26_NameBeforeAlias ==
  call.kind = "init" =>
    \A i \in 1..Len(Steps) :
      \A n \in 1..Len(DeclaredFields) :
        LET A == DeclaredFields[n]
        IN  (Steps[i].key = A \/ toCamelCase(Steps[i].key) = A) =>
              /\ Steps[i].target = A
              /\ Steps[i].outcome = "assigned"

\* C27: where two keys of one payload resolve to the same field, the later key
\* is validated against the value the earlier key assigned (not against the
\* default of the field) and is assigned, so the field ends with the value of
\* the later key.
C27_LaterKeyWins ==
  call.kind = "init" =>
    \A i, j \in 1..Len(call.data) :
      LET target(n) == ResolveTarget(call.pre, call.data[n].k,
                                     getClassFields(call.pre),
                                     MergedAliases(call.options))
          handled(n) == /\ ~SkipsEntry(call.data[n].k, call.data[n].v)
                        /\ ShouldAssign(target(n), toCamelCase(call.data[n].k),
                                        call.data[n].k)
      IN  (i < j /\ handled(i) /\ handled(j) /\ target(i) = target(j)
             /\ \A n \in (i + 1)..(j - 1) : ~(handled(n) /\ target(n) = target(i))) =>
            /\ Len(Steps) >= j
            /\ Steps[j].cur = Steps[i].final
            /\ Steps[j].outcome = "assigned"
            /\ LastWriter(j) => Get(inst, target(j)) = Steps[j].final

(***************************************************************************)
(* Populating with keys, aliases and transforms that name methods          *)
(***************************************************************************)
\* the largest number of keys of one payload, where names are those of methods
MethodMaxKeys == 2

\* aliases: { toPlain: ["id", "to_plain"], paymentId: ["init"] }
MethodAliases == << [k |-> toPlainName, v |-> <<id, to_plain>>],
                    [k |-> paymentId, v |-> <<initName>>] >>

\* transforms: { toPlain: Number, toJSON: Number }
MethodTransforms == << [k |-> toPlainName, v |-> "Number"],
                       [k |-> toJSONName, v |-> "Number"] >>

MethodOptionSets == [aliases : {<<>>, MethodAliases},
                     transforms : {<<>>, MethodTransforms},
                     strictMode : {"undefined", "true"}]

MethodKeys == {toPlainName, to_plain, toJSONName, to_j_s_o_n, initName, id, payment_id}

MethodValues == {Str30}

MethodPayloads ==
  { p \in UNION { [1..m -> [k : MethodKeys, v : MethodValues]] : m \in 0..MethodMaxKeys } :
      \A i, j \in 1..Len(p) : i # j => p[i].k # p[j].k }

\* the populate call a constructor makes, handed the names of methods
PopulateMethod ==
  /\ call.n = 0
  /\ \E data \in MethodPayloads, options \in MethodOptionSets, dev \in BOOLEAN :
       PopulateWith(data, options, dev)

NextMethod == PopulateMethod \/ PopulateNonObject

SpecMethod == Init /\ [][NextMethod]_vars

\* C28: an init call leaves every callable member (toPlain, toJSON, init) the
\* method it was, whatever the payload and the alias table name, and a key
\* that names a method, verbatim or by its camelCase form, is never assigned.
C28_MethodKeyNeverAssigned ==
  call.kind = "init" =>
    /\ \A m \in Methods : ~HasOwn(inst, m) /\ Get(inst, m) = FunctionVal
    /\ \A i \in 1..Len(Steps) :
         (Steps[i].key \in Methods \/ toCamelCase(Steps[i].key) \in Methods) =>
           Steps[i].outcome # "assigned"

\* C28, amended: an init call leaves every callable member the method it was,
\* whatever the payload and the alias and transform tables name: no iteration
\* assigns to the name of a method, and a key that names a method, verbatim or
\* by its camelCase form, is dropped or, at most, assigned to a declared data
\* field whose alias list holds it.
C28_MethodsNeverReplaced ==
  call.kind = "init" =>
    /\ \A m \in Methods : ~HasOwn(inst, m) /\ Get(inst, m) = FunctionVal
    /\ \A i \in 1..Len(Steps) :
         /\ Steps[i].target \in Methods => Steps[i].outcome # "assigned"
         /\ (/\ Steps[i].outcome = "assigned"
             /\ (Steps[i].key \in Methods \/ toCamelCase(Steps[i].key) \in Methods)) =>
              LET list == TableGet(MergedAliases(call.options), Steps[i].target)
              IN  /\ Includes(DeclaredFields, Steps[i].target)
                  /\ list # "none"
                  /\ AliasHit(list, Steps[i].key, toCamelCase(Steps[i].key))

\* to_plain, which an alias list of toPlain holds and whose camelCase form is
\* toPlain, and to_j_s_o_n were dropped: the instance is as it was
C28_Witness ==
  /\ call.kind = "init"
  /\ call.options.aliases = MethodAliases
  /\ call.options.transforms = MethodTransforms
  /\ call.data = << [k |-> to_plain, v |-> Str30], [k |-> to_j_s_o_n, v |-> Str30] >>
  /\ Steps[1].outcome = "dropped"
  /\ Steps[2].outcome = "dropped"
  /\ inst = call.pre

\* the latest init call used the options it was given and no others
UsesOwnOptions ==
  call.kind = "init" =>
    /\ opts = call.options
    /\ \A i \in 1..Len(Steps) :
         Piped(i) =>
           Steps[i].transform =
             InForce(call.options.transforms, StaticTransforms, Steps[i].target)
    /\ \A i \in 1..Len(Steps) :
         (Steps[i].outcome = "assigned" /\ Steps[i].key # Steps[i].target
            /\ toCamelCase(Steps[i].key) # Steps[i].target) =>
           LET list == InForce(call.options.aliases, StaticAliases, Steps[i].target)
           IN  list # "none" /\ AliasHit(list, Steps[i].key, toCamelCase(Steps[i].key))
    /\ (call.options.strictMode = "undefined" /\ ~call.auto) => diags = <<>>

\* C29: an init call resolves keys, transforms values and warns by the options
\* of that call (over the static declarations) alone, whatever options an
\* earlier call on the instance was given, and stores them; an init call whose
\* data is no object changes neither the instance nor the stored options.
C29_OptionsPerCall ==
  /\ []UsesOwnOptions
  /\ [][call'.kind = "nonobject" => (inst' = inst /\ opts' = opts)]_vars

\* a first call turned age into the number 30 by the transform of its options;
\* the second call, without options, left the string "30" on age
C29_Witness ==
  /\ call.kind = "init"
  /\ call.n = 2
  /\ call.options = EmptyOptions
  /\ Get(call.pre, age) = Num30
  /\ call.data = << [k |-> age, v |-> Str30] >>
  /\ Steps[1].transform = "none"
  /\ Get(inst, age) = Str30

(***************************************************************************)
(* The decorator registries and subclasses                                 *)
(*                                                                         *)
(*   class Dto extends FlexDto { ... }          (the class under test)     *)
(*   class SubDto extends Dto { @Alias("id") @Transform(Number) code = ""; } *)
(*   class PlainSub extends Dto { }                                        *)
(* aliasMetadata and transformMetadata are the two WeakMaps, written as    *)
(* entry lists keyed by the class whose prototype is the key.              *)
(***************************************************************************)
\* the largest number of keys of one payload handed to a subclass
MetaMaxKeys == 2

code == <<"c","o","d","e">>

MetaClasses == {"Dto", "SubDto", "PlainSub"}

\* the @Alias decorators of the program: the class that declares the field,
\* the field and the aliases
AliasDecorators ==
  { [cls |-> "Dto", propertyKey |-> paymentId, aliases |-> <<pay_id, payId>>],
    [cls |-> "SubDto", propertyKey |-> code, aliases |-> <<id>>] }

\* the @Transform decorators of the program
TransformDecorators ==
  { [cls |-> "Dto", propertyKey |-> amount, fn |-> "Number"],
    [cls |-> "SubDto", propertyKey |-> code, fn |-> "Number"] }

\* metadata.get(proto) || {}
MetadataGet(metadata, proto) ==
  IF HasOwn(metadata, proto) THEN metadata[IndexOfKey(metadata, proto)].v ELSE <<>>

\* The body of the function @Alias(...aliases) and @Transform(fn) return, for
\* target.constructor.prototype being the prototype of the class proto:
\* existing[propertyKey] = entry; metadata.set(proto, existing)
Register(metadata, proto, propertyKey, entry) ==
  SetProp(metadata, proto, SetProp(MetadataGet(metadata, proto), propertyKey, entry))

\* getAliasesOf looking the class up along the prototype chain, the table of
\* the parent under that of the class
getAliasesOf_Inherited(metadata, cls) ==
  IF cls = "Dto" THEN MetadataGet(metadata, cls)
  ELSE Spread(MetadataGet(metadata, "Dto"), MetadataGet(metadata, cls))

\* getAliases(target), target being an instance of cls
getAliasesOf(metadata, cls) == MetadataGet(metadata, cls)

\* getTransforms(target), target being an instance of cls
getTransformsOf(metadata, cls) == MetadataGet(metadata, cls)

\* the own properties of a new instance of cls after the field initializers
NewInstanceOf(cls, legacy) ==
  NewInstance(legacy)
    \o (IF cls = "SubDto" THEN << [k |-> code, v |-> StrEmpty] >> ELSE <<>>)

\* what init(data, options) does to the instance obj of class cls
RunInitAs(cls, obj, data, options, auto, dev) ==
  LET ctx == [aliases     |-> Spread(getAliasesOf(aliasMetadata, cls), options.aliases),
              transforms  |-> Spread(getTransformsOf(transformMetadata, cls),
                                     options.transforms),
              strict      |-> EffectiveStrict(options, auto),
              dev         |-> dev,
              classFields |-> getClassFields(obj)]
  IN  InitLoop([obj |-> obj, diags |-> <<>>, threw |-> FALSE, steps |-> <<>>],
               data, 1, ctx)

MetaKeys == {pay_id, payId, amount, id, code}

MetaValues == {Str30}

MetaPayloads ==
  { p \in UNION { [1..m -> [k : MetaKeys, v : MetaValues]] : m \in 0..MetaMaxKeys } :
      \A i, j \in 1..Len(p) : i # j => p[i].k # p[j].k }

\* the program has loaded the library: no class is defined, no instance made
InitMeta ==
  /\ legacyFields \in BOOLEAN
  /\ inst = <<>>
  /\ opts = EmptyOptions
  /\ autoStrict = FALSE
  /\ call = NoCall
  /\ diags = <<>>
  /\ threw = FALSE
  /\ ctor = "none"
  /\ aliasMetadata = <<>>
  /\ transformMetadata = <<>>
  /\ heap = <<>>
  /\ plainOut = NoResult
  /\ word = <<>>
  /\ converted = NoResult

\* an @Alias decorator runs, as its class is defined
DecorateAlias ==
  /\ ctor = "none"
  /\ \E d \in AliasDecorators :
       /\ ~HasOwn(MetadataGet(aliasMetadata, d.cls), d.propertyKey)
       /\ aliasMetadata' = Register(aliasMetadata, d.cls, d.propertyKey, d.aliases)
  /\ UNCHANGED <<legacyFields, inst, opts, autoStrict, call, diags, threw,
                 ctor, transformMetadata, heap, plainOut, word, converted>>

\* a @Transform decorator runs, as its class is defined
DecorateTransform ==
  /\ ctor = "none"
  /\ \E d \in TransformDecorators :
       /\ ~HasOwn(MetadataGet(transformMetadata, d.cls), d.propertyKey)
       /\ transformMetadata' = Register(transformMetadata, d.cls, d.propertyKey, d.fn)
  /\ UNCHANGED <<legacyFields, inst, opts, autoStrict, call, diags, threw,
                 ctor, aliasMetadata, heap, plainOut, word, converted>>

\* new cls(data): the constructor of FlexDto samples the ambient flag, the
\* field initializers run, and the constructor of the class calls init(data)
ConstructAs ==
  /\ ctor = "none"
  /\ \E cls \in MetaClasses, data \in MetaPayloads, ambient \in BOOLEAN :
       LET r == RunInitAs(cls, NewInstanceOf(cls, legacyFields), data,
                          EmptyOptions, isDevelopmentMode(ambient), ambient)
       IN  /\ ctor' = cls
           /\ autoStrict' = isDevelopmentMode(ambient)
           /\ inst' = r.obj
           /\ opts' = EmptyOptions
           /\ diags' = r.diags
           /\ threw' = r.threw
           /\ call' = [kind |-> "init", n |-> 1, data |-> data,
                       options |-> EmptyOptions,
                       pre |-> NewInstanceOf(cls, legacyFields), dev |-> ambient,
                       auto |-> isDevelopmentMode(ambient), steps |-> r.steps]
  /\ UNCHANGED <<legacyFields, aliasMetadata, transformMetadata,
                 heap, plainOut, word, converted>>

NextMeta == DecorateAlias \/ DecorateTransform \/ ConstructAs

SpecMeta == InitMeta /\ [][NextMeta]_vars

\* C30: each registry holds, under a class, the declarations made in that
\* class and no other (a declaration for a subclass field leaves the table of
\* the parent as it was), and an init call on an instance applies the static
\* aliases and transforms registered under the class of the instance alone: a
\* declaration of the parent is not applied to an instance of a subclass.
C30_OwnClassTableOnly ==
  /\ \A n \in 1..Len(aliasMetadata) : \A m \in 1..Len(aliasMetadata[n].v) :
       [cls |-> aliasMetadata[n].k, propertyKey |-> aliasMetadata[n].v[m].k,
        aliases |-> aliasMetadata[n].v[m].v] \in AliasDecorators
  /\ \A n \in 1..Len(transformMetadata) : \A m \in 1..Len(transformMetadata[n].v) :
       [cls |-> transformMetadata[n].k, propertyKey |-> transformMetadata[n].v[m].k,
        fn |-> transformMetadata[n].v[m].v] \in TransformDecorators
  /\ call.kind = "init" =>
       \A i \in 1..Len(Steps) :
         /\ Piped(i) =>
              Steps[i].transform =
                TableGet(MetadataGet(transformMetadata, ctor), Steps[i].target)
         /\ (/\ Steps[i].outcome = "assigned"
             /\ Steps[i].key # Steps[i].target
             /\ toCamelCase(Steps[i].key) # Steps[i].target) =>
              LET list == TableGet(MetadataGet(aliasMetadata, ctor), Steps[i].target)
              IN  list # "none" /\ AliasHit(list, Steps[i].key, toCamelCase(Steps[i].key))

\* both classes were decorated; an instance of SubDto was handed payId, an
\* alias declared in Dto, and amount, which Dto transforms: payId named no
\* field and amount kept the string, while id, declared in SubDto, would match
C30_Witness ==
  /\ call.kind = "init"
  /\ ctor = "SubDto"
  /\ MetadataGet(aliasMetadata, "Dto") = StaticAliases
  /\ MetadataGet(transformMetadata, "Dto") = StaticTransforms
  /\ MetadataGet(aliasMetadata, "SubDto") = << [k |-> code, v |-> <<id>>] >>
  /\ call.data = << [k |-> payId, v |-> Str30], [k |-> amount, v |-> Str30] >>
  /\ Steps[1].outcome = "dropped"
  /\ Get(inst, paymentId) = StrEmpty
  /\ Get(inst, amount) = Str30

====
